---- MODULE Spec2Model ----
(***************************************************************************)
(* Model of the RockAuto scraping client (rockauto_api/client/client.py).   *)
(*                                                                          *)
(* Several asyncio tasks call the coroutines of RockAutoClient instances.   *)
(* A coroutine runs without interruption between two awaits of a network    *)
(* request, so every action below is one such uninterrupted stretch: it     *)
(* starts at a call or at the arrival of a response and runs to the next    *)
(* request or to the return/raise of the outermost coroutine.               *)
(*                                                                          *)
(* Strings are sequences of one-character strings, so that lower(), the     *)
(* regular expressions and urllib.parse.quote are computed, not assumed.    *)
(***************************************************************************)
EXTENDS Integers, Sequences, FiniteSets, TLC

VARIABLES
    session_initialized,  \* [Clients -> BOOLEAN]        self._session_initialized
    nck_token,            \* [Clients -> Str or None]     self._nck_token
    dropdown_cache,       \* [Clients -> [Kinds -> vocabulary or NoVocab]]
                          \*   self._manufacturer_cache / _part_group_cache / _part_type_cache
    index_html,           \* content of the file index.html in the working directory
    part_cache,           \* [Clients -> entries of self._part_cache, oldest first, or NoCache]
    now,                  \* wall clock, in hours
    pc,                   \* [Tasks -> position of the task in its coroutine]
    frame,                \* [Tasks -> locals of the running call]
    ret,                  \* [Tasks -> outcome of the task's last finished call]
    net,                  \* [Tasks -> requests and extractions of the running call, in order]
    served,               \* [Tasks -> token field of the search page the upstream served to the running call]
    next_nck,             \* upstream: serial number of the next per-request form token
    landing_gets,         \* [Clients -> number of landing-page GETs issued so far]
    init_overlap,         \* [Clients -> TRUE once two _initialize_session calls were in flight together]
    calls                 \* number of calls started so far

vars == <<session_initialized, nck_token, dropdown_cache, index_html, part_cache, now, pc, frame,
          ret, net, served, next_nck, landing_gets, init_overlap, calls>>

-----------------------------------------------------------------------------
(* Bounds of the model *)

MaxCalls == 2        \* calls started in one behaviour
MaxTicks == 1        \* clock ticks in one behaviour

Tasks   == {"t1", "t2"}
Clients == {"c1", "c2"}
Kinds   == {"manufacturer", "part_group", "part_type"}
KindOrder == <<"manufacturer", "part_group", "part_type">>

TickHours == 36                 \* hours the clock advances in one tick
dropdown_cache_hours == 24      \* default of RockAutoClient(dropdown_cache_hours=...)
max_cached_searches == 100      \* default of RockAutoClient(max_cached_searches=...)
search_cache_hours == 12        \* default of RockAutoClient(search_cache_hours=...)

\* the enable_caching argument the clients are built with: c1 with the
\* default, c2 with enable_caching=False
enable_caching == [c \in Clients |-> c = "c1"]

-----------------------------------------------------------------------------
(* Python values *)

None == <<"None">>                      \* Python's None where a str is optional
Truthy(s) == s # None /\ s # <<>>       \* truth value of an Optional[str]

LowerChar(ch) ==
    CASE ch = "A" -> "a" [] ch = "B" -> "b" [] ch = "C" -> "c" [] ch = "E" -> "e"
      [] ch = "L" -> "l" [] ch = "M" -> "m" [] ch = "X" -> "x"
      [] OTHER -> ch

Lower(s) == [i \in DOMAIN s |-> LowerChar(s[i])]

RECURSIVE Flatten(_)
Flatten(ss) == IF ss = <<>> THEN <<>> ELSE Head(ss) \o Flatten(Tail(ss))

-----------------------------------------------------------------------------
(* urllib.parse.quote(token, safe='') *)

AlwaysSafe == {"a", "b", "c", "A", "B", "0", "1", "2", "_", ".", "-", "~"}

Hex(ch) ==
    CASE ch = "/" -> <<"2", "F">>
      [] ch = " " -> <<"2", "0">>
      [] ch = "+" -> <<"2", "B">>
      [] ch = "=" -> <<"3", "D">>
      [] ch = "&" -> <<"2", "6">>
      [] ch = "%" -> <<"2", "5">>

QuoteChar(ch) == IF ch \in AlwaysSafe THEN <<ch>> ELSE <<"%">> \o Hex(ch)

Quote(s) == Flatten([i \in DOMAIN s |-> QuoteChar(s[i])])

-----------------------------------------------------------------------------
(* The landing page https://www.rockauto.com/ as _initialize_session reads   *)
(* it: the script statements that assign a string literal, in document       *)
(* order.  lhs is the text left of the "=", val the text between the quotes. *)

TokA == <<"a", "/", "b">>
TokB == <<"c", "=", "1">>

MaxStmts == 2

Stmt(l, v) == [lhs |-> l, val |-> v]

\* the statements of the landing pages: the plain assignment carries TokA,
\* the parent one TokB, and either may assign the empty string
Stmts == { Stmt("window._nck", TokA), Stmt("window._nck", <<>>),
           Stmt("parent.window._nck", TokB), Stmt("parent.window._nck", <<>>) }

SeqsUpTo(X, n) == UNION {[1..k -> X] : k \in 0..n}

AllLandingPages == SeqsUpTo(Stmts, MaxStmts)

\* the landing pages the upstream serves in the full model
LandingPages ==
    { <<>>,
      <<Stmt("window._nck", TokA)>>,
      <<Stmt("parent.window._nck", TokB)>>,
      <<Stmt("parent.window._nck", TokB), Stmt("window._nck", TokA)>> }

\* re.search(r'window\._nck\s*=\s*"([^"]+)"', ...) finds a match in a statement
\* when its text holds  window._nck = "<one or more non-quote characters>" : the
\* pattern is not anchored, so the text  parent.window._nck = "..."  holds one too.
PrimaryMatches(st) == st.lhs \in {"window._nck", "parent.window._nck"} /\ st.val # <<>>

\* re.search(r'parent\.window\._nck\s*=\s*"([^"]+)"', ...)
ParentMatches(st) == st.lhs = "parent.window._nck" /\ st.val # <<>>

\* re.search scans left to right: group(1) of the first match, None without one
RECURSIVE SearchPrimary(_)
SearchPrimary(html) ==
    IF html = <<>> THEN None
    ELSE IF PrimaryMatches(Head(html)) THEN Head(html).val
    ELSE SearchPrimary(Tail(html))

RECURSIVE SearchParent(_)
SearchParent(html) ==
    IF html = <<>> THEN None
    ELSE IF ParentMatches(Head(html)) THEN Head(html).val
    ELSE SearchParent(Tail(html))

\* an extraction that stores the outcome of the search also when nothing matched
ExtractNckOrNone(old, html) ==
    LET nck_match == SearchPrimary(html)
        parent_match == SearchParent(html)
    IN  IF nck_match # None THEN nck_match ELSE parent_match

\* value of self._nck_token after lines 126-133, given its value before
ExtractNck(old, html) ==
    LET nck_match == SearchPrimary(html)
        parent_match == SearchParent(html)
    IN  IF nck_match # None THEN nck_match
        ELSE IF parent_match # None THEN parent_match
        ELSE old

\* _generate_jnck_token
JnckPrefix == <<"&", "_", "j", "n", "c", "k", "=">>

\* the parameter built from the raw token, quote() left out
GenerateJnckTokenRaw(tok) ==
    IF ~Truthy(tok) THEN <<>>
    ELSE JnckPrefix \o tok

GenerateJnckToken(tok) ==
    IF ~Truthy(tok) THEN <<>>
    ELSE JnckPrefix \o Quote(tok)

-----------------------------------------------------------------------------
(* str helpers used on scraped text *)

IsSpace(ch) == ch = " "

RECURSIVE LStrip(_)
LStrip(s) == IF s # <<>> /\ IsSpace(Head(s)) THEN LStrip(Tail(s)) ELSE s

RECURSIVE RStrip(_)
RStrip(s) == IF s # <<>> /\ IsSpace(s[Len(s)]) THEN RStrip(SubSeq(s, 1, Len(s) - 1)) ELSE s

Strip(s) == RStrip(LStrip(s))

StartsWith(s, p) == Len(s) >= Len(p) /\ SubSeq(s, 1, Len(p)) = p

\* s.replace(old, ''), left to right, non-overlapping
RECURSIVE Remove(_, _)
Remove(s, old) ==
    IF s = <<>> THEN <<>>
    ELSE IF StartsWith(s, old) THEN Remove(SubSeq(s, Len(old) + 1, Len(s)), old)
    ELSE <<Head(s)>> \o Remove(Tail(s), old)

-----------------------------------------------------------------------------
(* The search page https://www.rockauto.com/en/partsearch/ and the dropdown  *)
(* vocabularies scraped from it.                                             *)

Opt(v, t) == [value |-> v, text |-> t]

All  == <<"A", "l", "l">>
Acme == <<"A", "C", "M", "E">>

\* the <option> lists the upstream serves inside a <select>
SelectFull  == <<Opt(<<>>, All), Opt(<<"7">>, Acme), Opt(<<"9">>, <<" ">>)>>
SelectEmpty == <<>>
Selects == {SelectFull, SelectEmpty}

\* absence of the <select> element: soup.find(...) returned None
NoSelect == <<Opt(None, None)>>

\* an empty cache field (None)
NoVocab == [options |-> <<>>, count |-> -1, last_updated |-> -1]

\* lines 224-235: options with empty display text are skipped
RECURSIVE ScrapeOptions(_)
ScrapeOptions(select) ==
    IF select = <<>> THEN <<>>
    ELSE LET value == Head(select).value
             text  == Strip(Head(select).text)
         IN  (IF text # <<>> THEN <<Opt(value, text)>> ELSE <<>>)
                 \o ScrapeOptions(Tail(select))

BuildVocabulary(select, time) ==
    LET options == ScrapeOptions(select)
    IN  [options |-> options, count |-> Len(options), last_updated |-> time]

\* truth value of a cache field in "if use_cache and self._manufacturer_cache"
VocabTruthy(v) == v # NoVocab

\* an early return that also asks the entry to be younger than the TTL
CacheHitWithinTtl(cache, use_cache) ==
    use_cache /\ VocabTruthy(cache) /\ now - cache.last_updated < dropdown_cache_hours

\* condition of the early return of get_manufacturers / get_part_groups / get_part_types
CacheHit(cache, use_cache) == use_cache /\ VocabTruthy(cache)

\* the cache field a vocabulary of kind k is stored in
CacheField(k) == k

\* ManufacturerOptions.get_manufacturer_by_name and its two siblings
NoOption == Opt(None, None)

RECURSIVE GetByName(_, _)
GetByName(options, name) ==
    IF options = <<>> THEN NoOption
    ELSE IF Lower(Head(options).text) = Lower(name) THEN Head(options)
    ELSE GetByName(Tail(options), name)

LowerAll == <<"a", "l", "l">>

\* the comparison with 'all' without lower()
NeedsVocabularyExact(label) == Truthy(label) /\ label # LowerAll

\* "if manufacturer and manufacturer.lower() != 'all'"
NeedsVocabulary(label) == Truthy(label) /\ Lower(label) # LowerAll

\* lines 371-373: the form value of a label looked up in a vocabulary
FormValue(vocab, label) ==
    LET option == GetByName(vocab.options, label)
    IN  IF option # NoOption THEN option.value ELSE <<>>

NoValues == [k \in Kinds |-> <<>>]

\* Lines 369-385 from the i-th filter on, as far as they run without a network
\* request: a filter that needs no vocabulary keeps the empty value, a filter
\* whose vocabulary is cached is resolved from the cache, and the first filter
\* whose vocabulary must be fetched stops the walk.
RECURSIVE ResolveFrom(_, _, _, _)
ResolveFrom(i, labels, values, cache) ==
    IF i > Len(KindOrder) THEN [fetch |-> "none", values |-> values]
    ELSE LET k == KindOrder[i]
         IN  IF ~NeedsVocabulary(labels[k])
                 THEN ResolveFrom(i + 1, labels, values, cache)
             ELSE IF CacheHit(cache[CacheField(k)], TRUE)
                 THEN ResolveFrom(i + 1, labels,
                          [values EXCEPT ![k] = FormValue(cache[CacheField(k)], labels[k])],
                          cache)
             ELSE [fetch |-> k, values |-> values]

KindIndex(k) == CHOOSE i \in DOMAIN KindOrder : KindOrder[i] = k

-----------------------------------------------------------------------------
(* The result page and its extraction (_parse_parts_search_results,          *)
(* _extract_part_from_search_row).  A page is the sequence of its listing    *)
(* containers in document order; a container gives, for each sub-element the *)
(* extractor looks for, its text or attribute, or None when it is missing.   *)

NoSrc == <<"KeyError">>        \* an <img> element without a src attribute

Origin  == <<"h", "t", "t", "p", "s", ":", "/", "/", "r", "a">>  \* https://www.rockauto.com
Http    == <<"h", "t", "t", "p">>
Info    == <<"I", "n", "f", "o">>
Unknown == <<"U", "n", "k", "n", "o", "w", "n">>
Zero    == <<"0">>
EmptySpecs == <<"{", "}">>

Container(href, name, brand, price, number, img) ==
    [href |-> href, name |-> name, brand |-> brand, price |-> price,
     part_number |-> number, img |-> img]

RowFull    == Container(<<"/", "x">>, <<"P", "a", "d", " ">> \o Info, <<" ", "B">>,
                        <<"$", "1">>, <<"1", "2">>, <<"/", "i">>)
RowNoPrice == Container(<<"/", "y">>, <<"R", "o", "d">>, <<"C">>, None, <<"3">>, None)
RowBadImg  == Container(None, None, None, <<"$", "2">>, None, NoSrc)

RowAbsolute == Container(Http \o <<"/", "z">>, <<>>, <<"D", " ">>, <<" ", "$", "4">>,
                         <<"5">>, <<"/", "j">>)

\* the result pages the upstream serves in the full model
ResultPages == { <<>>, <<RowBadImg, RowFull, RowNoPrice>> }

MaxRows == 3

\* the containers in which each sub-element is either there or missing
FieldSubsets ==
    { Container(href, name, brand, price, number, img) :
          href \in {None, RowFull.href}, name \in {None, RowFull.name},
          brand \in {None, RowFull.brand}, price \in {None, RowFull.price},
          number \in {None, RowFull.part_number}, img \in {None, RowFull.img} }

\* every page of one such container, and every page of up to MaxRows of the
\* four containers above
AllResultPages ==
    { <<c>> : c \in FieldSubsets }
        \cup UNION {[1..n -> {RowFull, RowNoPrice, RowBadImg, RowAbsolute}] : n \in 0..MaxRows}

\* Raised stands for the except branch of lines 493-495 (None)
Raised == [raised |-> TRUE]

\* the PartInfo object of lines 483-491: every argument is kept as given,
\* also a None
PartInfo(name, part_number, brand, price, url, specifications, image_url) ==
    [raised |-> FALSE, name |-> name, part_number |-> part_number, brand |-> brand,
     price |-> price, url |-> url, specifications |-> specifications,
     image_url |-> image_url]

\* text.strip() without the test of the text
StripUnguarded(text, default) == Strip(text)

\* "text.strip() if text else default" (lines 486, 487)
StripOr(text, default) == IF Truthy(text) THEN Strip(text) ELSE default

ExtractPartFromSearchRow(table) ==
    LET href == IF table.href = None THEN <<>>
                ELSE IF table.href # <<>> /\ ~StartsWith(table.href, Http)
                     THEN Origin \o table.href
                ELSE table.href
        name  == table.name
        brand == table.brand
        price == table.price
        part_img == IF table.img = None THEN None ELSE Origin \o table.img
    IN  IF table.img = NoSrc THEN Raised
        ELSE PartInfo(IF Truthy(name) THEN Strip(Remove(name, Info)) ELSE Unknown,
                      table.part_number,
                      StripOr(brand, Unknown),
                      StripOr(price, Zero),
                      href,
                      EmptySpecs,
                      part_img)

\* a loop that collects the parts in front of the list
RECURSIVE ParsePartsSearchResultsReversed(_)
ParsePartsSearchResultsReversed(soup) ==
    IF soup = <<>> THEN <<>>
    ELSE LET part == ExtractPartFromSearchRow(Head(soup))
         IN  ParsePartsSearchResultsReversed(Tail(soup))
                 \o (IF part # Raised THEN <<part>> ELSE <<>>)

\* a loop that a row's exception ends
RECURSIVE ParsePartsSearchResultsAborted(_)
ParsePartsSearchResultsAborted(soup) ==
    IF soup = <<>> THEN <<>>
    ELSE LET part == ExtractPartFromSearchRow(Head(soup))
         IN  IF part # Raised THEN <<part>> \o ParsePartsSearchResultsAborted(Tail(soup))
             ELSE <<>>

RECURSIVE ParsePartsSearchResults(_)
ParsePartsSearchResults(soup) ==
    IF soup = <<>> THEN <<>>
    ELSE LET part == ExtractPartFromSearchRow(Head(soup))
         IN  (IF part # Raised THEN <<part>> ELSE <<>>)
                 \o ParsePartsSearchResults(Tail(soup))

\* PartSearchResult(...) of lines 421-427
PartNumbers == {<<"1", "2">>}

SearchResult(parts, part_number, labels) ==
    [parts |-> parts, count |-> Len(parts), search_term |-> part_number,
     manufacturer |-> IF Truthy(labels["manufacturer"]) THEN labels["manufacturer"] ELSE All,
     part_group |-> IF Truthy(labels["part_group"]) THEN labels["part_group"] ELSE All]

NoResult == [parts |-> <<>>, count |-> -1, search_term |-> None,
             manufacturer |-> None, part_group |-> None]

-----------------------------------------------------------------------------
(* State *)

NoLabels == [k \in Kinds |-> None]

NoForm == [nck |-> None, partnum |-> None, values |-> NoValues]

\* the query parameters of a request to the offers endpoint
NoRequest == [oem |-> None, make_name |-> None, text |-> None]

\* the form of a catalog call; a field that is not in the dict is None
NoApiData == [func |-> None, payload |-> None, api_json_request |-> None, jnck |-> None]

\* a response object; status is "ok" or the exception the request ends with
NoResponse == [status |-> "none", body |-> <<>>]
Ok(body)   == [status |-> "ok", body |-> body]
Fail(e)    == [status |-> e, body |-> <<>>]

\* failures of a request: session.get/post raises, or raise_for_status() raises
RequestErrors == {"ConnectError", "HTTPStatusError"}
Failures == {Fail(e) : e \in RequestErrors}

\* the locals of a call; id is the serial number of the call
NoFrame == [op |-> "none", self |-> "none", id |-> 0, response |-> NoResponse,
            kind |-> "none", use_cache |-> TRUE, part_number |-> None,
            labels |-> NoLabels, values |-> NoValues, security_token |-> None,
            form_data |-> NoForm, caller |-> "none", request |-> NoRequest,
            parts |-> <<>>, data |-> <<>>, function |-> None, payload |-> None,
            api_data |-> NoApiData]

\* The outcome of a call: status "ok" (returned) or "raised", with the message
\* chain of the exception, the returned value, the requests the call made, the
\* exception a handler of the call swallowed, and the arguments of the call.
NoRet == [op |-> "none", self |-> "none", id |-> 0, kind |-> "none", status |-> "none",
          error |-> <<>>, swallowed |-> "", net |-> <<>>, jnck |-> None,
          vocab |-> NoVocab, result |-> NoResult, part_number |-> None,
          labels |-> NoLabels, caller |-> "none", data |-> <<>>, json |-> None,
          api_data |-> NoApiData]

NoFile == [exists |-> FALSE, text |-> <<>>]

\* self._part_cache of a client built with enable_caching=False (None); a
\* cache that create_cache() made is the sequence of its entries, none at first
NoCache == <<[key |-> None, value |-> None]>>

\* requests and extractions recorded in net
GetLanding     == <<"GET", "/", "">>
GetSearchPage  == <<"GET", "/en/partsearch/", "search">>
GetDropdown(k) == <<"GET", "/en/partsearch/", k>>
NckExtracted   == <<"nck", "", "">>
PostSearch     == <<"POST", "/en/partsearch/", "">>

FetchFailed(k) ==
    CASE k = "manufacturer" -> "Failed to fetch manufacturers"
      [] k = "part_group"   -> "Failed to fetch part groups"
      [] k = "part_type"    -> "Failed to fetch part types"

DropdownMissing(k) ==
    CASE k = "manufacturer" -> "Could not find manufacturer dropdown on parts search page"
      [] k = "part_group"   -> "Could not find part group dropdown on parts search page"
      [] k = "part_type"    -> "Could not find part type dropdown on parts search page"

SearchFailed == "Failed to search parts"
TokenMissing == "Could not find security token on parts search page"

\* the per-request token the upstream embeds in the k-th search page it serves
FormToken(k) == <<"n", ToString(k)>>

Init ==
    /\ session_initialized = [c \in Clients |-> FALSE]
    /\ nck_token = [c \in Clients |-> None]
    /\ dropdown_cache = [c \in Clients |-> [k \in Kinds |-> NoVocab]]
    /\ index_html = NoFile
    /\ part_cache = [c \in Clients |-> IF enable_caching[c] THEN <<>> ELSE NoCache]
    /\ now = 0
    /\ pc = [t \in Tasks |-> "idle"]
    /\ frame = [t \in Tasks |-> NoFrame]
    /\ ret = [t \in Tasks |-> NoRet]
    /\ net = [t \in Tasks |-> <<>>]
    /\ served = [t \in Tasks |-> None]
    /\ next_nck = 1
    /\ landing_gets = [c \in Clients |-> 0]
    /\ init_overlap = [c \in Clients |-> FALSE]
    /\ calls = 0

CanCall(t) == pc[t] = "idle" /\ calls < MaxCalls

\* the locals of a new call of op on client c
Call(op, c) == [NoFrame EXCEPT !.op = op, !.self = c, !.id = calls + 1]

Returned(f) ==
    [NoRet EXCEPT !.op = f.op, !.self = f.self, !.id = f.id, !.kind = f.kind,
                  !.part_number = f.part_number, !.labels = f.labels,
                  !.caller = f.caller, !.api_data = f.api_data, !.status = "ok"]

RaisedError(f, error) ==
    [NoRet EXCEPT !.op = f.op, !.self = f.self, !.id = f.id, !.kind = f.kind,
                  !.part_number = f.part_number, !.labels = f.labels,
                  !.caller = f.caller, !.api_data = f.api_data,
                  !.status = "raised", !.error = error]

\* the outermost coroutine of task t returns or raises: its locals are gone
Leave(t, r) ==
    /\ pc' = [pc EXCEPT ![t] = "idle"]
    /\ ret' = [ret EXCEPT ![t] = [r EXCEPT !.net = net[t]]]
    /\ frame' = [frame EXCEPT ![t] = NoFrame]
    /\ net' = [net EXCEPT ![t] = <<>>]
    /\ served' = [served EXCEPT ![t] = None]

\* task t goes on to the await of a request, after the steps in events: it is
\* suspended at position at
Await(t, f, events, at) ==
    /\ pc' = [pc EXCEPT ![t] = at]
    /\ frame' = [frame EXCEPT ![t] = f]
    /\ net' = [net EXCEPT ![t] = @ \o events]
    /\ UNCHANGED ret

\* The response of the request task t is suspended on arrives (or the request
\* fails): the task becomes runnable; it runs on when the event loop resumes it.
Deliver(t, at, response) ==
    /\ pc[t] = at
    /\ frame[t].response = NoResponse
    /\ frame' = [frame EXCEPT ![t].response = response]
    /\ UNCHANGED <<session_initialized, nck_token, dropdown_cache, index_html, now, part_cache, pc, ret,
                   net, landing_gets, init_overlap, calls>>

Resumable(t, at) == pc[t] = at /\ frame[t].response # NoResponse

-----------------------------------------------------------------------------
(* _call_catalog_api: the form it posts *)

PostCatalog == <<"POST", "/catalog/catalogapi.php", "">>
CatalogFailed == "Catalog API call failed"

\* the body of a catalog response that json() decodes, and one it does not
CatalogJson == <<"{", "}">>
CatalogHtml == <<"<">>

\* the parameter put into the form as it is, prefix included
CatalogJnckWhole(jnck_token) == jnck_token

\* jnck_token[7:] (line 170)
CatalogJnck(jnck_token) == SubSeq(jnck_token, 8, Len(jnck_token))

\* api_data of lines 159-170, built while the client holds the token tok
ApiData(function, payload, tok) ==
    LET jnck_token == GenerateJnckToken(tok)
    IN  [func |-> function, payload |-> payload, api_json_request |-> <<"1">>,
         jnck |-> IF jnck_token # <<>> THEN CatalogJnck(jnck_token) ELSE None]

\* lines 158-188: task t, with locals f, builds the form and awaits the POST
PostCatalogApi(t, f, tok) ==
    /\ Await(t, [f EXCEPT !.response = NoResponse,
                          !.api_data = ApiData(f.function, f.payload, tok)],
             <<PostCatalog>>, "catalog")
    /\ UNCHANGED served

-----------------------------------------------------------------------------
(* _initialize_session *)

\* the guard of line 114 left out
NeverInitialized(c) == FALSE

\* the guard of line 114
AlreadyInitialized(c) == session_initialized[c]

InFlightInit(c) == {u \in Tasks : pc[u] = "landing" /\ frame[u].self = c}

\* the call up to its first await (line 119), or to the early return of line 115
StartInitializeSession(t, c) ==
    /\ CanCall(t)
    /\ calls' = calls + 1
    /\ IF AlreadyInitialized(c)
       THEN /\ Leave(t, Returned(Call("init", c)))
            /\ UNCHANGED <<landing_gets, init_overlap>>
       ELSE /\ Await(t, Call("init", c), <<GetLanding>>, "landing")
            /\ landing_gets' = [landing_gets EXCEPT ![c] = @ + 1]
            /\ init_overlap' = [init_overlap EXCEPT ![c] = @ \/ InFlightInit(c) # {}]
            /\ UNCHANGED served
    /\ UNCHANGED <<session_initialized, nck_token, dropdown_cache, index_html, now, part_cache, next_nck>>

LandingResponse(t, response) ==
    /\ Deliver(t, "landing", response)
    /\ UNCHANGED <<served, next_nck>>

\* an except branch that resets the token
NckAfterReset(old, response) ==
    IF response.status = "ok" THEN ExtractNck(old, response.body) ELSE None

\* self._nck_token after lines 117-140, given its value before: the except
\* branch leaves it alone
NckAfter(old, response) ==
    IF response.status = "ok" THEN ExtractNck(old, response.body) ELSE old

\* the task runs on from line 119 to the end: lines 120-135, or 137-140 when
\* the request failed; _call_catalog_api, when it is the caller, runs on from
\* line 156 to its POST
ResumeInitializeSession(t) ==
    /\ Resumable(t, "landing")
    /\ LET c == frame[t].self
           response == frame[t].response
       IN  /\ nck_token' = [nck_token EXCEPT ![c] = NckAfter(@, response)]
           /\ session_initialized' = [session_initialized EXCEPT ![c] = TRUE]
           /\ IF frame[t].op = "catalog"
              THEN PostCatalogApi(t, frame[t], NckAfter(nck_token[c], response))
              ELSE Leave(t, [Returned(frame[t]) EXCEPT
                               !.swallowed = IF response.status = "ok" THEN ""
                                             ELSE response.status])
    /\ UNCHANGED <<dropdown_cache, index_html, now, part_cache, next_nck, landing_gets, init_overlap,
                   calls>>

-----------------------------------------------------------------------------
(* _call_catalog_api *)

\* the call up to its first await: the GET of _initialize_session (line 119),
\* or the POST of line 184 when the session is initialized already
StartCallCatalogApi(t, c, function, payload) ==
    /\ CanCall(t)
    /\ calls' = calls + 1
    /\ LET f == [Call("catalog", c) EXCEPT !.function = function, !.payload = payload]
       IN  IF AlreadyInitialized(c)
           THEN /\ PostCatalogApi(t, f, nck_token[c])
                /\ UNCHANGED <<landing_gets, init_overlap>>
           ELSE /\ Await(t, f, <<GetLanding>>, "landing")
                /\ landing_gets' = [landing_gets EXCEPT ![c] = @ + 1]
                /\ init_overlap' = [init_overlap EXCEPT ![c] = @ \/ InFlightInit(c) # {}]
                /\ UNCHANGED served
    /\ UNCHANGED <<session_initialized, nck_token, dropdown_cache, index_html, now, part_cache, next_nck>>

CatalogResponse(t, response) ==
    /\ Deliver(t, "catalog", response)
    /\ UNCHANGED <<served, next_nck>>

\* the task runs on from line 184 to the end: lines 189-195
ResumeCallCatalogApi(t) ==
    /\ Resumable(t, "catalog")
    /\ LET response == frame[t].response
       IN  IF response.status # "ok"
           THEN Leave(t, RaisedError(frame[t], <<CatalogFailed, response.status>>))
           ELSE IF response.body # CatalogJson
           THEN Leave(t, RaisedError(frame[t], <<CatalogFailed, "JSONDecodeError">>))
           ELSE Leave(t, [Returned(frame[t]) EXCEPT !.json = response.body])
    /\ UNCHANGED <<session_initialized, nck_token, dropdown_cache, index_html, now, part_cache,
                   next_nck, landing_gets, init_overlap, calls>>

-----------------------------------------------------------------------------
(* _generate_jnck_token: synchronous *)

CallGenerateJnckToken(t, c) ==
    /\ CanCall(t)
    /\ calls' = calls + 1
    /\ Leave(t, [Returned(Call("jnck", c)) EXCEPT !.jnck = GenerateJnckToken(nck_token[c])])
    /\ UNCHANGED <<session_initialized, nck_token, dropdown_cache, index_html, now, part_cache, next_nck,
                   landing_gets, init_overlap>>

-----------------------------------------------------------------------------
(* get_manufacturers / get_part_groups / get_part_types.  The three methods  *)
(* differ in the element id, the cache field and the messages only; k names  *)
(* the method.                                                               *)

\* the call up to its first await, or to the early return on a cache hit
StartGetVocabulary(t, c, k, use_cache) ==
    /\ CanCall(t)
    /\ calls' = calls + 1
    /\ LET f == [Call("vocab", c) EXCEPT !.kind = k, !.use_cache = use_cache]
       IN  IF CacheHit(dropdown_cache[c][CacheField(k)], use_cache)
           THEN Leave(t, [Returned(f) EXCEPT !.vocab = dropdown_cache[c][CacheField(k)]])
           ELSE /\ Await(t, f, <<GetDropdown(k)>>, "dropdown")
                /\ UNCHANGED served
    /\ UNCHANGED <<session_initialized, nck_token, dropdown_cache, index_html, now, part_cache, next_nck,
                   landing_gets, init_overlap>>

DropdownResponse(t, response) ==
    /\ Deliver(t, "dropdown", response)
    /\ UNCHANGED <<served, next_nck>>

\* a token kept beside the client: the one of the page served last
FormNckLatest(t, security_token) == FormToken(next_nck - 1)

\* the token that goes into form_data["_nck"] (line 389): the local security_token
FormNck(t, security_token) == security_token

\* What search_parts_by_number does once security_token is set and the filters
\* from the i-th on are still to be resolved (lines 369-409), up to its next
\* await: a dropdown request, or the search POST.  f holds its locals, events
\* what it did since it was resumed.
ResolveAndPost(t, f, i, cache, events) ==
    LET r == ResolveFrom(i, f.labels, f.values, cache)
        g == [f EXCEPT !.response = NoResponse, !.values = r.values]
    IN  IF r.fetch # "none"
        THEN Await(t, [g EXCEPT !.kind = r.fetch], events \o <<GetDropdown(r.fetch)>>,
                   "dropdown")
        ELSE Await(t, [g EXCEPT !.kind = "none",
                                !.form_data = [nck |-> FormNck(t, f.security_token),
                                               partnum |-> f.part_number,
                                               values |-> r.values]],
                   events \o <<PostSearch>>, "post")

\* the error of get_* passed on by the search as it is
PropagateUnwrapped(t, error) == Leave(t, RaisedError(frame[t], error))

\* a failed get_* call that sends its request once more
PropagateRetry(t, error) ==
    /\ Await(t, [frame[t] EXCEPT !.response = NoResponse], <<GetDropdown(frame[t].kind)>>,
             "dropdown")
    /\ UNCHANGED served

\* the error a failed get_* call ends with: raised as it is to the caller of
\* get_*, wrapped once more by the except branch of a search (line 430)
Propagate(t, error) ==
    IF frame[t].op = "search"
    THEN Leave(t, RaisedError([frame[t] EXCEPT !.kind = "none"], <<SearchFailed>> \o error))
    ELSE Leave(t, RaisedError(frame[t], error))

\* the check of the select element left out
SelectFoundAlways(select) == TRUE

\* "if not manufacturer_select" (lines 221, 264, 307)
SelectFound(select) == select # NoSelect

\* the task runs on from the await of get_*: lines 215-237 (or the except
\* branch), then the caller's continuation
ResumeGetVocabulary(t) ==
    /\ Resumable(t, "dropdown")
    /\ LET c == frame[t].self
           k == frame[t].kind
           response == frame[t].response
           vocab == BuildVocabulary(response.body, now)
           cache == [dropdown_cache[c] EXCEPT ![CacheField(k)] = vocab]
       IN  IF response.status # "ok"
           THEN /\ Propagate(t, <<FetchFailed(k), response.status>>)
                /\ UNCHANGED dropdown_cache
           ELSE IF ~SelectFound(response.body)
           THEN /\ Propagate(t, <<FetchFailed(k), DropdownMissing(k)>>)
                /\ UNCHANGED dropdown_cache
           ELSE /\ dropdown_cache' = [dropdown_cache EXCEPT ![c] = cache]
                /\ IF frame[t].op = "search"
                   THEN /\ ResolveAndPost(t,
                               [frame[t] EXCEPT !.values[k] = FormValue(vocab, frame[t].labels[k])],
                               KindIndex(k) + 1, cache, <<>>)
                        /\ UNCHANGED served
                   ELSE Leave(t, [Returned(frame[t]) EXCEPT !.vocab = vocab])
    /\ UNCHANGED <<session_initialized, nck_token, index_html, now, part_cache, next_nck,
                   landing_gets, init_overlap, calls>>

-----------------------------------------------------------------------------
(* app/utils/exchanger.py (usd_to_gel) and the loop of                       *)
(* find_parts_by_oem_and_make_name that calls it for every part of a result  *)

Contains(s, ch) == \E i \in DOMAIN s : s[i] = ch

\* float(text) returns: text is a decimal literal (ValueError otherwise)
IsFloat(text) ==
    /\ \E i \in DOMAIN text : text[i] \in {"0", "1", "2", "3", "4", "5"}
    /\ \A i \in DOMAIN text : text[i] \in {"0", "1", "2", "3", "4", "5", "."}
    /\ Cardinality({i \in DOMAIN text : text[i] = "."}) <= 1

\* the currency sign usd_to_gel finds in amount, None when it finds neither
\* (exchanger.py lines 16 and 24)
CurrencySign(amount) ==
    IF Contains(amount, "€") THEN <<"€">>
    ELSE IF Contains(amount, "$") THEN <<"$">>
    ELSE None

\* params['from'] of the conversion request
FromCurrency(sign) == IF sign = <<"€">> THEN "EUR" ELSE "USD"

GetConvert(sign) == <<"GET", "/convert", FromCurrency(sign)>>

\* the body of a conversion response: JSON with a 'result', JSON without
\* one, or no JSON at all
Converted  == <<"r", "3">>
NoResultKey == <<"e">>
NotJson    == <<"<">>

\* the dict appended to data (rockauto.py lines 37-52)
Offer(part, cost) ==
    [oem |-> part.part_number, make_name |-> part.brand, detail_name |-> part.name,
     cost |-> cost, qnt |-> 25, min_qnt |-> 2, sup_logo |-> "ROCKAUTO"]

\* The loop of rockauto.py lines 36-52 from the first of parts on, as far as it
\* runs without a network request: a price without a currency sign converts to
\* None at once, a price that float() rejects raises, and the first price that
\* needs a conversion request stops the walk.
RECURSIVE OffersRun(_, _)
OffersRun(parts, data) ==
    IF parts = <<>> THEN [at |-> "return", parts |-> parts, data |-> data]
    ELSE LET amount == Head(parts).price
             sign == CurrencySign(amount)
         IN  IF sign = None
                 THEN OffersRun(Tail(parts), Append(data, Offer(Head(parts), None)))
             ELSE IF ~IsFloat(Strip(Remove(amount, sign)))
                 THEN [at |-> "ValueError", parts |-> parts, data |-> data]
             ELSE [at |-> "await", parts |-> parts, data |-> data]

\* task t, with locals f, runs the loop over parts with the offers in data
\* built so far, up to its next await or to its end
BuildOffers(t, f, parts, data) ==
    LET r == OffersRun(parts, data)
        g == [f EXCEPT !.response = NoResponse, !.parts = r.parts, !.data = r.data]
    IN  CASE r.at = "return" -> Leave(t, [Returned(g) EXCEPT !.data = r.data])
          [] r.at = "await"  ->
                 /\ Await(t, g, <<GetConvert(CurrencySign(Head(r.parts).price))>>, "convert")
                 /\ UNCHANGED served
          [] OTHER -> Leave(t, RaisedError(g, <<r.at>>))

ConvertResponse(t, response) ==
    /\ Deliver(t, "convert", response)
    /\ UNCHANGED <<served, next_nck>>

\* the task runs on from the await of usd_to_gel (exchanger.py line 20 or 29):
\* response.json()['result'], then the rest of the loop
ResumeConvert(t) ==
    /\ Resumable(t, "convert")
    /\ LET response == frame[t].response
           part == Head(frame[t].parts)
       IN  IF response.status # "ok"
           THEN Leave(t, RaisedError(frame[t], <<response.status>>))
           ELSE IF response.body = NotJson
           THEN Leave(t, RaisedError(frame[t], <<"JSONDecodeError">>))
           ELSE IF Head(response.body) # "r"
           THEN Leave(t, RaisedError(frame[t], <<"KeyError">>))
           ELSE BuildOffers(t, frame[t], Tail(frame[t].parts),
                            Append(frame[t].data, Offer(part, Tail(response.body))))
    /\ UNCHANGED <<session_initialized, nck_token, dropdown_cache, index_html, now, part_cache,
                   next_nck, landing_gets, init_overlap, calls>>

-----------------------------------------------------------------------------
(* search_parts_by_number *)

\* the call up to its first await: the GET of line 352
StartSearch(t, c, part_number, labels) ==
    /\ CanCall(t)
    /\ calls' = calls + 1
    /\ Await(t, [Call("search", c) EXCEPT !.part_number = part_number, !.labels = labels],
             <<GetSearchPage>>, "page")
    /\ UNCHANGED <<session_initialized, nck_token, dropdown_cache, index_html, now, part_cache, served,
                   next_nck, landing_gets, init_overlap>>

\* "RockAutoClient()" (lines 90-110): the name c is bound to a new instance,
\* which no running call holds
NewClient(c) ==
    /\ \A u \in Tasks : frame[u].self # c
    /\ session_initialized' = [session_initialized EXCEPT ![c] = FALSE]
    /\ nck_token' = [nck_token EXCEPT ![c] = None]
    /\ dropdown_cache' = [dropdown_cache EXCEPT ![c] = [k \in Kinds |-> NoVocab]]
    /\ part_cache' = [part_cache EXCEPT ![c] = <<>>]

\* find_parts_by_oem_and_make_name(oem, make_name, text) up to its first await
\* (rockauto.py lines 29-34): a new client, and the search of text + oem with
\* the manufacturer make_name up to its GET of line 352.  f holds the locals
\* of the outermost call.
FindPartsByOemAndMakeName(t, c, f, oem, make_name, text) ==
    /\ NewClient(c)
    /\ Await(t, [f EXCEPT !.op = "search", !.part_number = text \o oem,
                          !.labels = [k \in Kinds |-> IF k = "manufacturer" THEN make_name
                                                       ELSE None]],
             <<GetSearchPage>>, "page")
    /\ UNCHANGED <<index_html, now, served, next_nck, landing_gets, init_overlap>>

\* a call of find_parts_by_oem_and_make_name by a caller other than the route
StartFindParts(t, c, oem, make_name, text) ==
    /\ CanCall(t)
    /\ calls' = calls + 1
    /\ FindPartsByOemAndMakeName(t, c,
           [Call("offers", c) EXCEPT !.caller = "find",
                !.request = [oem |-> oem, make_name |-> make_name, text |-> text]],
           oem, make_name, text)

\* the keys the proxy accepts
ValidKey == <<"k">>
CheckApiKey(api_key) == api_key = ValidKey

\* GET get_offers_by_oem_and_make_name (app/api/search.py lines 27-43) up to
\* its first await: the key is checked and find_parts_by_oem_and_make_name is
\* called with oem alone (line 41), so that make_name and text take the
\* defaults '' of rockauto.py lines 26-27
StartGetOffers(t, c, oem, make_name, text, api_key) ==
    /\ CanCall(t)
    /\ calls' = calls + 1
    /\ LET f == [Call("offers", c) EXCEPT !.caller = "route",
                     !.request = [oem |-> oem, make_name |-> make_name, text |-> text]]
       IN  IF ~CheckApiKey(api_key)
           THEN /\ Leave(t, RaisedError(f, <<"HTTPException">>))
                /\ UNCHANGED <<session_initialized, nck_token, dropdown_cache, index_html, now,
                               part_cache, next_nck, landing_gets, init_overlap>>
           ELSE FindPartsByOemAndMakeName(t, c, f, oem, <<>>, <<>>)

\* The body of a search page is the value of its token field, None when the
\* page has no such field.  The upstream embeds a fresh token in every page.
SearchPageResponse(t, response) ==
    /\ Deliver(t, "page", response)
    /\ served' = [served EXCEPT ![t] = IF response.status = "ok" THEN response.body ELSE None]
    /\ next_nck' = IF response = Ok(FormToken(next_nck)) THEN next_nck + 1 ELSE next_nck

\* the check of line 359 left out
HasNckInputAlways(nck_input) == TRUE

\* soup.find("input", {"name": "_nck"}): None when the page has no such input
HasNckInput(nck_input) == nck_input # None

\* the value read from an attribute the input does not have: always the default
SecurityTokenDefault(nck_input) == <<>>

\* nck_input.get("value", "") (line 362)
SecurityToken(nck_input) == nck_input

\* the task runs on from line 352: lines 353-409 up to the next await
ResumeSearchAtPage(t) ==
    /\ Resumable(t, "page")
    /\ LET response == frame[t].response
           nck_input == response.body
       IN  IF response.status # "ok"
           THEN Leave(t, RaisedError(frame[t], <<SearchFailed, response.status>>))
           ELSE IF ~HasNckInput(nck_input)
           THEN Leave(t, RaisedError(frame[t], <<SearchFailed, TokenMissing>>))
           ELSE /\ ResolveAndPost(t,
                       [frame[t] EXCEPT !.security_token = SecurityToken(nck_input)],
                       1, dropdown_cache[frame[t].self], <<NckExtracted>>)
                /\ UNCHANGED served
    /\ UNCHANGED <<session_initialized, nck_token, dropdown_cache, index_html, now, part_cache, next_nck,
                   landing_gets, init_overlap, calls>>

PostResponse(t, response) ==
    /\ Deliver(t, "post", response)
    /\ UNCHANGED <<served, next_nck>>

\* a write that leaves an existing file alone
WriteIndexHtmlOnce(file, original_html, written) ==
    IF file.exists THEN file
    ELSE CASE written = "ok"    -> [exists |-> TRUE, text |-> original_html]
           [] written = "write" -> [exists |-> TRUE, text |-> <<>>]
           [] written = "open"  -> file

\* The file index.html after lines 416-417.  written tells how the write ends:
\* "ok", or open() raises ("open"), or write() raises after open() truncated
\* the file ("write").
WriteIndexHtml(file, original_html, written) ==
    CASE written = "ok"    -> [exists |-> TRUE, text |-> original_html]
      [] written = "write" -> [exists |-> TRUE, text |-> <<>>]
      [] written = "open"  -> file

\* The task runs on from line 405 to the end: lines 410-427, and then the
\* lines of the caller in app/utils/rockauto.py that follow the search.
ResumeSearchAtPost(t, written) ==
    /\ Resumable(t, "post")
    /\ LET response == frame[t].response
           original_html == response.body
       IN  IF response.status # "ok"
           THEN /\ Leave(t, RaisedError(frame[t], <<SearchFailed, response.status>>))
                /\ written = "ok"
                /\ UNCHANGED index_html
           ELSE /\ index_html' = WriteIndexHtml(index_html, original_html, written)
                /\ IF written # "ok"
                   THEN Leave(t, RaisedError(frame[t], <<SearchFailed, "OSError">>))
                   ELSE IF frame[t].caller = "none"
                   THEN Leave(t, [Returned(frame[t]) EXCEPT
                            !.result = SearchResult(ParsePartsSearchResults(original_html),
                                                    frame[t].part_number, frame[t].labels)])
                   ELSE BuildOffers(t, [frame[t] EXCEPT !.op = "offers"],
                                    ParsePartsSearchResults(original_html), <<>>)
    /\ UNCHANGED <<session_initialized, nck_token, dropdown_cache, now, part_cache, next_nck,
                   landing_gets, init_overlap, calls>>

-----------------------------------------------------------------------------
(* Cancellation.  task.cancel() throws CancelledError into the coroutine at  *)
(* the await it is suspended on, also when the awaited response has arrived  *)
(* and the task was not resumed yet.  CancelledError is a BaseException: the *)
(* "except Exception" clauses of lines 137, 239 and 429 do not catch it.     *)

Cancelled == "CancelledError"

\* a handler that turns the cancellation into an empty result
CancelOutcomePartial(f) ==
    [Returned(f) EXCEPT !.result = SearchResult(<<>>, f.part_number, f.labels)]

\* how a call with locals f ends when it is cancelled: the error leaves the
\* call as it is
CancelOutcome(f) == RaisedError(f, <<Cancelled>>)

Cancel(t) ==
    /\ pc[t] # "idle"
    /\ Leave(t, CancelOutcome(frame[t]))
    /\ UNCHANGED <<session_initialized, nck_token, dropdown_cache, index_html, now, part_cache,
                   next_nck, landing_gets, init_overlap, calls>>

-----------------------------------------------------------------------------
(* Time passes.  Only the difference between the clock and a last_updated    *)
(* stamp can matter, so the clock is left alone while no stamp exists.       *)

Stamped == \E c \in Clients, k \in Kinds : dropdown_cache[c][k] # NoVocab

Tick ==
    /\ Stamped
    /\ now < MaxTicks * TickHours
    /\ now' = now + TickHours
    /\ UNCHANGED <<session_initialized, nck_token, dropdown_cache, index_html, part_cache, pc,
                   frame, ret, net, served, next_nck, landing_gets, init_overlap, calls>>

-----------------------------------------------------------------------------
(* The system: tasks t1 and t2 share the client c1 *)

Lab(m, g, y) == [k \in Kinds |-> CASE k = "manufacturer" -> m [] k = "part_group" -> g
                                      [] k = "part_type" -> y]

AnyCase == <<"a", "L", "l">>
acme    == <<"a", "c", "m", "e">>
Unlisted == <<"x">>

\* the filter labels of the searches: absent, "all", a listed and an unlisted
\* label, met by each of the three filters
SearchLabels ==
    { Lab(None, AnyCase, acme),
      Lab(AnyCase, acme, Unlisted),
      Lab(acme, Unlisted, <<>>),
      Lab(Unlisted, None, AnyCase) }

Users == {"c1"}

ConcurrentLabels == { Lab(acme, AnyCase, None) }

\* the query parameters and the result pages of the requests for offers
MakeNames == {<<>>, acme}
Texts == {<<>>, <<"0">>}
RowRange == Container(<<"/", "r">>, <<"K", "i", "t">>, <<"E">>, <<"$", "1", "/", "2">>,
                      <<"4">>, None)
RowEuro == Container(<<"/", "e">>, <<"C", "a", "p">>, <<"F">>, <<"€", "2", ".", "5">>,
                     <<"5">>, None)
OfferPages == { <<>>, <<RowNoPrice, RowFull>>, <<RowFull, RowEuro, RowAbsolute>>,
                <<RowFull, RowRange>> }

LandingResponses(pages) == Failures \cup {Ok(html) : html \in pages}
DropdownResponses == {Fail("ConnectError")} \cup {Ok(select) : select \in Selects \cup {NoSelect}}
SearchPageResponses == {Fail("ConnectError"), Ok(None), Ok(<<>>), Ok(FormToken(next_nck))}
PostResponses == {Fail("HTTPStatusError")} \cup {Ok(page) : page \in ResultPages}

Functions == {<<"f">>}
Payloads == {<<"{", "}">>}
CatalogResponses == Failures \cup {Ok(CatalogJson), Ok(CatalogHtml)}

CatalogCalls ==
    \/ \E t \in Tasks, c \in Users, function \in Functions, payload \in Payloads :
           StartCallCatalogApi(t, c, function, payload)
    \/ \E t \in Tasks, r \in CatalogResponses : CatalogResponse(t, r)
    \/ \E t \in Tasks : ResumeCallCatalogApi(t)

SessionCalls ==
    \/ \E t \in Tasks, c \in Users : StartInitializeSession(t, c)
    \/ \E t \in Tasks : ResumeInitializeSession(t)
    \/ \E t \in Tasks, c \in Users : CallGenerateJnckToken(t, c)

VocabularyCalls ==
    \/ \E t \in Tasks, c \in Users, k \in Kinds, use_cache \in BOOLEAN :
           StartGetVocabulary(t, c, k, use_cache)

VocabularySteps ==
    \/ \E t \in Tasks, r \in DropdownResponses : DropdownResponse(t, r)
    \/ \E t \in Tasks : ResumeGetVocabulary(t)

SearchCalls(callers, labelsets) ==
    \/ \E t \in callers, c \in Users, p \in PartNumbers, labels \in labelsets :
           StartSearch(t, c, p, labels)

SearchSteps ==
    \/ \E t \in Tasks, r \in SearchPageResponses : SearchPageResponse(t, r)
    \/ \E t \in Tasks : ResumeSearchAtPage(t)
    \/ \E t \in Tasks, r \in PostResponses : PostResponse(t, r)
    \/ \E t \in Tasks, written \in {"ok", "open", "write"} : ResumeSearchAtPost(t, written)

Next ==
    \/ SessionCalls
    \/ CatalogCalls
    \/ \E t \in Tasks, r \in LandingResponses(LandingPages) : LandingResponse(t, r)
    \/ VocabularyCalls
    \/ VocabularySteps
    \/ SearchCalls(Tasks, SearchLabels)
    \/ SearchSteps
    \/ \E t \in Tasks, c \in Users, oem \in PartNumbers, make_name \in MakeNames, text \in Texts :
           StartFindParts(t, c, oem, make_name, text)
    \/ \E t \in Tasks, c \in Users, oem \in PartNumbers, make_name \in MakeNames, text \in Texts,
          api_key \in {ValidKey, <<>>} :
           StartGetOffers(t, c, oem, make_name, text, api_key)
    \/ \E t \in Tasks, r \in {Fail("ConnectError"), Ok(Converted), Ok(NoResultKey), Ok(NotJson)} :
           ConvertResponse(t, r)
    \/ \E t \in Tasks : ResumeConvert(t)
    \/ \E t \in Tasks : Cancel(t)
    \/ Tick

Spec == Init /\ [][Next]_vars

\* the session manager alone, against every landing page of up to MaxStmts statements
SessionNext ==
    \/ SessionCalls
    \/ \E t \in Tasks, r \in LandingResponses(AllLandingPages) : LandingResponse(t, r)

SpecSession == Init /\ [][SessionNext]_vars

\* the catalog calls of two tasks, with the session initialisation beside them
CatalogNext ==
    \/ \E t \in Tasks, c \in Users : StartInitializeSession(t, c)
    \/ \E t \in Tasks : ResumeInitializeSession(t)
    \/ \E t \in Tasks, r \in LandingResponses(LandingPages) : LandingResponse(t, r)
    \/ CatalogCalls

SpecCatalog == Init /\ [][CatalogNext]_vars

\* the option resolver alone, with the clock
VocabularyNext ==
    \/ VocabularyCalls
    \/ VocabularySteps
    \/ Tick

SpecVocabulary == Init /\ [][VocabularyNext]_vars

\* the searches of one task, one after the other, over all the filter labels
FiltersNext ==
    \/ SearchCalls({"t1"}, SearchLabels)
    \/ VocabularySteps
    \/ SearchSteps

SpecFilters == Init /\ [][FiltersNext]_vars

\* the calls on the client built with enable_caching=False
UncachedNext ==
    \/ \E t \in Tasks, k \in Kinds, use_cache \in BOOLEAN :
           StartGetVocabulary(t, "c2", k, use_cache)
    \/ \E t \in Tasks, p \in PartNumbers, labels \in ConcurrentLabels :
           StartSearch(t, "c2", p, labels)
    \/ VocabularySteps
    \/ SearchSteps

SpecUncached == Init /\ [][UncachedNext]_vars

\* one search without filters, answered with every result page
ExtractNext ==
    \/ calls = 0 /\ \E p \in PartNumbers : StartSearch("t1", "c1", p, NoLabels)
    \/ \E t \in Tasks : SearchPageResponse(t, Ok(FormToken(next_nck)))
    \/ \E t \in Tasks : ResumeSearchAtPage(t)
    \/ \E t \in Tasks, page \in AllResultPages : PostResponse(t, Ok(page))
    \/ \E t \in Tasks, written \in {"ok", "open", "write"} : ResumeSearchAtPost(t, written)

SpecExtract == Init /\ [][ExtractNext]_vars

\* the offers endpoint and its helper: one request after the other, each with
\* a client of its own
OffersNext ==
    \/ \E oem \in PartNumbers, make_name \in MakeNames, text \in Texts :
           StartFindParts("t1", "c1", oem, make_name, text)
    \/ \E oem \in PartNumbers, make_name \in MakeNames, text \in Texts,
          api_key \in {ValidKey, <<>>} :
           StartGetOffers("t1", "c1", oem, make_name, text, api_key)
    \/ \E t \in Tasks, r \in {Fail("ConnectError"), Ok(FormToken(next_nck))} :
           SearchPageResponse(t, r)
    \/ \E t \in Tasks : ResumeSearchAtPage(t)
    \/ \E t \in Tasks, r \in {Fail("ConnectError"), Ok(SelectFull)} : DropdownResponse(t, r)
    \/ \E t \in Tasks : ResumeGetVocabulary(t)
    \/ \E t \in Tasks, r \in {Fail("HTTPStatusError")} \cup {Ok(page) : page \in OfferPages} :
           PostResponse(t, r)
    \/ \E t \in Tasks, written \in {"ok", "open"} : ResumeSearchAtPost(t, written)
    \/ \E t \in Tasks, r \in {Fail("ConnectError"), Ok(Converted), Ok(NoResultKey), Ok(NotJson)} :
           ConvertResponse(t, r)
    \/ \E t \in Tasks : ResumeConvert(t)

SpecOffers == Init /\ [][OffersNext]_vars

\* two client instances in one process, each used by a task of its own
Owned(t) == IF t = "t1" THEN "c1" ELSE "c2"

InstancesNext ==
    \/ \E t \in Tasks : StartInitializeSession(t, Owned(t))
    \/ \E t \in Tasks, r \in {Fail("ConnectError"), Ok(<<Stmt("window._nck", TokA)>>)} :
           LandingResponse(t, r)
    \/ \E t \in Tasks : ResumeInitializeSession(t)
    \/ \E t \in Tasks, k \in Kinds : StartGetVocabulary(t, Owned(t), k, TRUE)
    \/ \E t \in Tasks, p \in PartNumbers, labels \in ConcurrentLabels :
           StartSearch(t, Owned(t), p, labels)
    \/ \E t \in Tasks, r \in {Ok(SelectFull), Ok(NoSelect)} : DropdownResponse(t, r)
    \/ \E t \in Tasks : ResumeGetVocabulary(t)
    \/ SearchSteps

SpecInstances == Init /\ [][InstancesNext]_vars

\* the same searches, which the caller may cancel while they are suspended
CancelNext ==
    \/ FiltersNext
    \/ \E t \in Tasks : Cancel(t)

SpecCancel == Init /\ [][CancelNext]_vars

\* searches of two tasks that interleave at their awaits, with the session
\* initialisation beside them
SearchNext ==
    \/ \E t \in Tasks, c \in Users : StartInitializeSession(t, c)
    \/ \E t \in Tasks, r \in {Fail("ConnectError"), Ok(<<Stmt("window._nck", TokA)>>)} :
           LandingResponse(t, r)
    \/ \E t \in Tasks : ResumeInitializeSession(t)
    \/ SearchCalls(Tasks, ConcurrentLabels)
    \/ VocabularySteps
    \/ SearchSteps

SpecSearch == Init /\ [][SearchNext]_vars

-----------------------------------------------------------------------------
(* Properties *)

\* the step is a call of task t that returns or raises without awaiting
ReturnsAtOnce(t) == calls' = calls + 1 /\ ret'[t].id = calls'

SearchOrdered(t) ==
    LET n == net[t]
    IN  /\ n # <<>>
        /\ n[1] = GetSearchPage
        /\ \A i \in 2..Len(n) : n[i] # GetSearchPage
        /\ Len(n) < 2 => frame[t].security_token = None
        /\ Len(n) >= 2 => /\ n[2] = NckExtracted
                          /\ served[t] # None
                          /\ frame[t].security_token = served[t]
        /\ \A i \in 3..Len(n) : n[i] = PostSearch \/ \E k \in Kinds : n[i] = GetDropdown(k)
        /\ \A i \in 1..Len(n) : n[i] = PostSearch => i = Len(n) /\ i >= 3

C2_InitializedOnce ==
    /\ [](\A c \in Clients : ~init_overlap[c] => landing_gets[c] <= 1)
    /\ [][\A c \in Clients :
            session_initialized[c] =>
                /\ session_initialized'[c]
                /\ InFlightInit(c) = {} =>
                       /\ nck_token'[c] = nck_token[c]
                       /\ landing_gets'[c] = landing_gets[c]
                       /\ InFlightInit(c)' = {}]_vars

C2_Witness ==
    \E t \in Tasks, u \in Tasks :
        /\ ret[t].op = "init" /\ ret[t].net = <<GetLanding>>
        /\ ret[u].op = "init" /\ ret[u].net = <<>>
        /\ ret[u].self = ret[t].self
        /\ ret[u].id > ret[t].id
        /\ ~init_overlap[ret[t].self]
        /\ landing_gets[ret[t].self] = 1

\* C3: when the landing request fails, _initialize_session returns normally,
\* the flag is set, the token keeps its value, and a landing page is never
\* requested for a client whose flag is set.
C3_FailureSwallowed ==
    [][/\ \A t \in Tasks :
            Resumable(t, "landing") /\ frame[t].response.status # "ok" /\ pc'[t] = "idle" =>
                /\ ret'[t].id = frame[t].id
                /\ ret'[t].status = "ok"
                /\ session_initialized'[frame[t].self]
                /\ nck_token'[frame[t].self] = nck_token[frame[t].self]
       /\ \A t \in Tasks :
            pc[t] = "idle" /\ pc'[t] = "landing" => ~session_initialized[frame'[t].self]]_vars

C3_Witness ==
    \E t \in Tasks :
        /\ ret[t].op = "init"
        /\ ret[t].swallowed = "HTTPStatusError"
        /\ ret[t].status = "ok"
        /\ session_initialized[ret[t].self]
        /\ nck_token[ret[t].self] = TokA

\* the string a page assigns with the plain (primary) form and with the
\* parent (fallback) form: the first such assignment of a non-empty string
FirstAssigned(html, lhs) ==
    LET at == {i \in DOMAIN html : html[i].lhs = lhs /\ html[i].val # <<>>}
    IN  IF at = {} THEN None
        ELSE html[CHOOSE i \in at : \A j \in at : i <= j].val

\* C4 as stated: the stored token is the one the primary pattern assigns
\* whenever the page has it, the fallback's when the page has only that, and
\* with neither the token stays null and the bypass parameter is empty.
C4_TokenFromPrimaryPattern ==
    [][\A t \in Tasks :
          Resumable(t, "landing") /\ frame[t].response.status = "ok" /\ pc'[t] = "idle" =>
              LET html == frame[t].response.body
                  c == frame[t].self
                  primary == FirstAssigned(html, "window._nck")
                  fallback == FirstAssigned(html, "parent.window._nck")
              IN  /\ session_initialized'[c]
                  /\ primary # None => nck_token'[c] = primary
                  /\ primary = None /\ fallback # None => nck_token'[c] = fallback
                  /\ primary = None /\ fallback = None =>
                         /\ nck_token'[c] = nck_token[c]
                         /\ nck_token[c] = None => GenerateJnckToken(nck_token'[c]) = <<>>]_vars

\* percent-decoding, the inverse of quote()
Unhex(a, b) ==
    CASE <<a, b>> = <<"2", "F">> -> "/"
      [] <<a, b>> = <<"2", "0">> -> " "
      [] <<a, b>> = <<"2", "B">> -> "+"
      [] <<a, b>> = <<"3", "D">> -> "="
      [] <<a, b>> = <<"2", "6">> -> "&"
      [] <<a, b>> = <<"2", "5">> -> "%"

RECURSIVE Unquote(_)
Unquote(s) ==
    IF s = <<>> THEN <<>>
    ELSE IF Head(s) = "%" THEN <<Unhex(s[2], s[3])>> \o Unquote(SubSeq(s, 4, Len(s)))
    ELSE <<Head(s)>> \o Unquote(Tail(s))

Reserved == {"/", " ", "+", "=", "&"}

\* C5: _generate_jnck_token returns normally; it returns the empty string
\* exactly when no token is held, else "&_jnck=" followed by the
\* percent-escaped token; it makes no request and changes no field.
C5_BypassParameterPure ==
    [][\A t \in Tasks :
          ReturnsAtOnce(t) /\ ret'[t].op = "jnck" =>
              LET tok == nck_token[ret'[t].self]
                  out == ret'[t].jnck
                  escaped == SubSeq(out, Len(JnckPrefix) + 1, Len(out))
              IN  /\ ret'[t].status = "ok"
                  /\ ret'[t].net = <<>>
                  /\ pc'[t] = "idle"
                  /\ (out = <<>>) <=> (tok = None \/ tok = <<>>)
                  /\ out # <<>> =>
                         /\ SubSeq(out, 1, Len(JnckPrefix)) = JnckPrefix
                         /\ \A i \in DOMAIN escaped : escaped[i] \notin Reserved
                         /\ Unquote(escaped) = tok
                  /\ UNCHANGED <<session_initialized, nck_token, dropdown_cache, index_html, part_cache,
                                 landing_gets>>]_vars

C5_Witness ==
    \E t \in Tasks :
        /\ ret[t].op = "jnck"
        /\ nck_token[ret[t].self] = TokA
        /\ ret[t].jnck = JnckPrefix \o <<"a", "%", "2", "F", "b">>

\* the task a step resumes or makes return
Moves(t) == pc'[t] # pc[t]

C7_MissingSelectRaises ==
    [][\A t \in Tasks :
          (/\ Resumable(t, "dropdown")
           /\ frame[t].op = "vocab"
           /\ frame[t].response = Ok(NoSelect)
           /\ Moves(t))
              => /\ pc'[t] = "idle"
                 /\ ret'[t].id = frame[t].id
                 /\ ret'[t].status = "raised"
                 /\ ret'[t].error = <<FetchFailed(frame[t].kind), DropdownMissing(frame[t].kind)>>
                 /\ ret'[t].vocab = NoVocab
                 /\ dropdown_cache' = dropdown_cache]_vars

\* a use_cache = False call that failed so while a vocabulary of its kind was cached
C7_Witness ==
    \E t \in Tasks :
        /\ ret[t].op = "vocab"
        /\ ret[t].status = "raised"
        /\ ret[t].error = <<FetchFailed(ret[t].kind), DropdownMissing(ret[t].kind)>>
        /\ dropdown_cache[ret[t].self][ret[t].kind] # NoVocab
        /\ dropdown_cache[ret[t].self][ret[t].kind].count > 0

Requests(t) == {net[t][i] : i \in DOMAIN net[t]}

Least(S) == CHOOSE i \in S : \A j \in S : i <= j

\* the form value of filter k in the POST task t is waiting on, against the
\* label the caller gave and the vocabulary of the client
FilterResolved(t, k) ==
    LET label == frame[t].labels[k]
        value == frame[t].form_data.values[k]
        options == dropdown_cache[frame[t].self][k].options
        hits == {i \in DOMAIN options : Lower(options[i].text) = Lower(label)}
    IN  IF label = None \/ Lower(label) = LowerAll
            THEN value = <<>> /\ GetDropdown(k) \notin Requests(t)
        ELSE IF hits # {} THEN value = options[Least(hits)].value
        ELSE value = <<>>

\* C8: in the POST of a search, each of the three filters carries the empty
\* value when its label is absent or is "all" in any letter case, and then no
\* dropdown of that filter was fetched; the value of the first option whose
\* text equals the label up to letter case when there is one; and the empty
\* value when there is none.  A search fails only because a request failed,
\* the token input or a select element was missing, or index.html could not be
\* written: never because a label matched no option.
C8_FilterResolution ==
    \A t \in Tasks :
        /\ pc[t] = "post" =>
              /\ \A k \in Kinds : FilterResolved(t, k)
              /\ net[t][Len(net[t])] = PostSearch
        /\ ret[t].op = "search" /\ ret[t].status = "raised" =>
              ret[t].error[2] \in RequestErrors \cup {TokenMissing, "OSError"}
                                      \cup {FetchFailed(k) : k \in Kinds}

\* a search with an "aLl", a listed and an unlisted label at its POST
C8_Witness ==
    \E t \in Tasks :
        /\ pc[t] = "post"
        /\ frame[t].labels = Lab(AnyCase, acme, Unlisted)
        /\ frame[t].form_data.values = Lab(<<>>, <<"7">>, <<>>)
        /\ dropdown_cache[frame[t].self]["part_type"].count > 0
        /\ GetDropdown("part_type") \in Requests(t)

\* C9: every search starts with its own GET of the search page, and the _nck
\* of its POST is the token of the page served to that same call; of two
\* searches suspended at their POSTs, neither carries the token served to the
\* other.
C9_TokenOfOwnPage ==
    \A t \in Tasks :
        /\ frame[t].op = "search" => net[t] # <<>> /\ net[t][1] = GetSearchPage
        /\ ret[t].op = "search" => ret[t].net # <<>> /\ ret[t].net[1] = GetSearchPage
        /\ pc[t] = "post" =>
              /\ served[t] # None
              /\ frame[t].form_data.nck = served[t]
              /\ \A u \in Tasks \ {t} :
                    served[u] # served[t] => frame[t].form_data.nck # served[u]

\* two searches on one client, both at their POST, each with the token of its own page
C9_Witness ==
    /\ \A t \in Tasks : pc[t] = "post" /\ frame[t].self = "c1"
    /\ frame["t1"].form_data.nck = FormToken(2)
    /\ frame["t2"].form_data.nck = FormToken(1)

\* C10: when the search page has no _nck input, the search raises "Failed to
\* search parts: Could not find security token on parts search page", and the
\* GET of the page is the only request the call made: no dropdown fetch and no
\* POST follow.
C10_MissingTokenRaises ==
    [][\A t \in Tasks :
          (/\ Resumable(t, "page")
           /\ frame[t].response = Ok(None)
           /\ Moves(t))
              => /\ pc'[t] = "idle"
                 /\ ret'[t].id = frame[t].id
                 /\ ret'[t].status = "raised"
                 /\ ret'[t].error = <<SearchFailed, TokenMissing>>
                 /\ ret'[t].net = <<GetSearchPage>>
                 /\ net'[t] = <<>>
                 /\ dropdown_cache' = dropdown_cache]_vars

\* a search with a filter to resolve that failed on the missing token input
C10_Witness ==
    \E t \in Tasks :
        /\ ret[t].op = "search"
        /\ ret[t].status = "raised"
        /\ ret[t].error = <<SearchFailed, TokenMissing>>
        /\ dropdown_cache[ret[t].self]["manufacturer"] = NoVocab

\* the message of the exception that makes the step of a resumed search fail,
\* <<>> when the response it is resumed with lets it go on
Cause(t) ==
    LET response == frame[t].response
        k == frame[t].kind
    IN  IF response.status # "ok"
            THEN (IF pc[t] = "dropdown" THEN <<FetchFailed(k), response.status>>
                  ELSE <<response.status>>)
        ELSE IF pc[t] = "page" /\ response.body = None THEN <<TokenMissing>>
        ELSE IF pc[t] = "dropdown" /\ response.body = NoSelect
            THEN <<FetchFailed(k), DropdownMissing(k)>>
        ELSE <<>>

\* C11: a search that runs to its end either returns a PartSearchResult or
\* raises one exception "Failed to search parts: <message of the cause>".  A
\* failed page GET, a missing token input, a failed or select-less dropdown
\* fetch and a failed POST all end it that way, with no result; after a failed
\* POST nothing is parsed and index.html is not written.  A result is returned
\* only by the step resumed with a successful POST response, and it holds the
\* parts of that response.
C11_ResultOrSearchFailed ==
    [][\A t \in Tasks :
          frame[t].op = "search" /\ Moves(t) /\ pc'[t] = "idle" =>
              LET r == ret'[t]
                  response == frame[t].response
              IN  /\ r.id = frame[t].id
                  /\ r.status \in {"ok", "raised"}
                  /\ (r.status = "ok") <=> (r.result # NoResult)
                  /\ (r.status = "ok") <=> (r.error = <<>>)
                  /\ r.status = "raised" =>
                         Len(r.error) >= 2 /\ r.error[1] = SearchFailed
                  /\ Cause(t) # <<>> =>
                         /\ r.status = "raised"
                         /\ r.error = <<SearchFailed>> \o Cause(t)
                         /\ index_html' = index_html
                  /\ r.status = "ok" =>
                         /\ pc[t] = "post"
                         /\ response.status = "ok"
                         /\ r.result.parts = ParsePartsSearchResults(response.body)
                         /\ r.result.count = Len(r.result.parts)
                         /\ r.result.search_term = frame[t].part_number
                  /\ r.status = "raised" /\ Cause(t) = <<>> =>
                         pc[t] = "post" /\ r.error = <<SearchFailed, "OSError">>]_vars

\* a search that resolved a filter and whose POST was answered with an error status
C11_Witness ==
    \E t \in Tasks :
        /\ ret[t].op = "search"
        /\ ret[t].status = "raised"
        /\ ret[t].error = <<SearchFailed, "HTTPStatusError">>
        /\ ret[t].result = NoResult
        /\ ret[t].net[Len(ret[t].net)] = PostSearch
        /\ GetDropdown("manufacturer") \in {ret[t].net[i] : i \in DOMAIN ret[t].net}
        /\ ~index_html.exists

\* the step in which search t is resumed with the result page and returns
ReturnsParts(t) ==
    /\ Resumable(t, "post")
    /\ Moves(t)
    /\ ret'[t].status = "ok"

\* a container whose extraction does not raise
WellFormed(c) == c.img # NoSrc

\* C12: from a result page whose N containers are all well formed the search
\* returns exactly N records, the i-th one built from the i-th container (it
\* carries that container's part number and is what the row extractor makes
\* of that container alone); from a page without containers it returns the
\* empty list; when it fails on such a page, it fails on writing index.html.
C12_OneRecordPerContainer ==
    [][\A t \in Tasks :
          (/\ Resumable(t, "post")
           /\ Moves(t)
           /\ frame[t].response.status = "ok"
           /\ \A i \in DOMAIN frame[t].response.body :
                  WellFormed(frame[t].response.body[i]))
              => LET page == frame[t].response.body
                     parts == ret'[t].result.parts
                 IN  \/ ret'[t].error = <<SearchFailed, "OSError">>
                     \/ /\ ret'[t].status = "ok"
                        /\ Len(parts) = Len(page)
                        /\ ret'[t].result.count = Len(page)
                        /\ \A i \in DOMAIN page :
                               /\ parts[i].part_number = page[i].part_number
                               /\ parts[i] = ExtractPartFromSearchRow(page[i])]_vars

\* three records returned in the order of their containers
C12_Witness ==
    \E t \in Tasks :
        /\ ret[t].op = "search"
        /\ ret[t].status = "ok"
        /\ index_html.text = <<RowNoPrice, RowAbsolute, RowFull>>
        /\ ret[t].result.count = 3
        /\ ret[t].result.parts[1].part_number = <<"3">>
        /\ ret[t].result.parts[2].part_number = <<"5">>
        /\ ret[t].result.parts[3].part_number = <<"1", "2">>

\* the sub-elements container c lacks
Missing(c) ==
    {f \in {"href", "name", "brand", "price", "part_number", "img"} : c[f] = None}

\* C13: when every container of the page has an <img> with a src or none at
\* all, a container that lacks any of its sub-elements still yields its
\* record, at its place: with brand "Unknown" for a missing brand, name
\* "Unknown" for a missing name, price "0" for a missing price, None for a
\* missing part number or thumbnail and "" for a missing link; and the
\* records of the other containers are those of the page on which that
\* container is complete.
C13_MissingFieldDefaults ==
    [][\A t \in Tasks :
          (/\ ReturnsParts(t)
           /\ \A i \in DOMAIN frame[t].response.body :
                  WellFormed(frame[t].response.body[i]))
              => LET page == frame[t].response.body
                     parts == ret'[t].result.parts
                 IN  /\ Len(parts) = Len(page)
                     /\ \A i \in DOMAIN page :
                            LET c == page[i]
                                complete == ParsePartsSearchResults([page EXCEPT ![i] = RowFull])
                            IN  /\ c.brand = None => parts[i].brand = Unknown
                                /\ c.name = None => parts[i].name = Unknown
                                /\ c.price = None => parts[i].price = Zero
                                /\ c.part_number = None => parts[i].part_number = None
                                /\ c.img = None => parts[i].image_url = None
                                /\ c.href = None => parts[i].url = <<>>
                                /\ c.brand # None => parts[i].brand = Strip(c.brand)
                                /\ c.price # None => parts[i].price = Strip(c.price)
                                /\ Len(complete) = Len(parts)
                                /\ \A j \in DOMAIN page \ {i} : complete[j] = parts[j]]_vars

\* a complete container followed by one without a price: two records, the
\* second with the price "0"
C13_Witness ==
    \E t \in Tasks :
        /\ ret[t].op = "search"
        /\ ret[t].status = "ok"
        /\ index_html.text = <<RowFull, RowNoPrice>>
        /\ Missing(RowFull) = {}
        /\ "price" \in Missing(RowNoPrice)
        /\ ret[t].result.count = 2
        /\ ret[t].result.parts[1].price = <<"$", "1">>
        /\ ret[t].result.parts[2].price = Zero

Raising(page) == {i \in DOMAIN page : ~WellFormed(page[i])}

\* C14: when the extraction of some containers raises (an <img> without src),
\* the search still returns; the records are those of the other containers,
\* in their order, and their number is the number of containers minus the
\* number of those that raised.
C14_RaisingRowDropped ==
    [][\A t \in Tasks :
          (/\ Resumable(t, "post")
           /\ Moves(t)
           /\ frame[t].response.status = "ok"
           /\ Raising(frame[t].response.body) # {})
              => LET page == frame[t].response.body
                     parts == ret'[t].result.parts
                     kept == SelectSeq(page, WellFormed)
                 IN  \/ ret'[t].error = <<SearchFailed, "OSError">>
                     \/ /\ ret'[t].status = "ok"
                        /\ Len(parts) = Len(page) - Cardinality(Raising(page))
                        /\ ret'[t].result.count = Len(parts)
                        /\ Len(parts) = Len(kept)
                        /\ \A j \in DOMAIN kept :
                               /\ parts[j].part_number = kept[j].part_number
                               /\ parts[j] = ExtractPartFromSearchRow(kept[j])]_vars

\* a raising container between two others: the two records, in order
C14_Witness ==
    \E t \in Tasks :
        /\ ret[t].op = "search"
        /\ ret[t].status = "ok"
        /\ index_html.text = <<RowFull, RowBadImg, RowNoPrice>>
        /\ ret[t].result.count = 2
        /\ ret[t].result.parts[1].part_number = <<"1", "2">>
        /\ ret[t].result.parts[2].part_number = <<"3">>

\* the outcome r is that of a search that returned a result for the query of
\* the call with locals f, on the same client, before that call started
ResultFor(r, f) ==
    /\ r.op = "search"
    /\ r.status = "ok"
    /\ r.self = f.self
    /\ r.id < f.id
    /\ r.part_number = f.part_number
    /\ r.labels = f.labels

\* C15 as stated: on a client with caching enabled, a search for a query that
\* an earlier search returned a result for less than search_cache_hours ago
\* makes no request: it is never found suspended on one.
C15_RepeatedQueryFromCache ==
    \A t \in Tasks, u \in Tasks :
        (/\ frame[t].op = "search"
         /\ enable_caching[frame[t].self]
         /\ now < search_cache_hours
         /\ ResultFor(ret[u], frame[t]))
            => net[t] = <<>>

\* C16 as stated: the result cache of a client with caching enabled never
\* holds more than max_cached_searches entries, and it holds the result of
\* the search that returned last.
C16_CacheHoldsLatest ==
    \A c \in Clients :
        enable_caching[c] =>
            /\ Len(part_cache[c]) <= max_cached_searches
            /\ \A t \in Tasks :
                   (/\ ret[t].op = "search"
                    /\ ret[t].status = "ok"
                    /\ ret[t].self = c
                    /\ \A u \in Tasks :
                           ret[u].op = "search" /\ ret[u].status = "ok" /\ ret[u].self = c
                               => ret[u].id <= ret[t].id)
                       => \E i \in DOMAIN part_cache[c] : part_cache[c][i].value = ret[t].result

\* C17 as stated: on a client built with enable_caching=False every search
\* and every get_* call that ended has made a request.
C17_NothingCachedWhenDisabled ==
    \A t \in Tasks :
        ret[t].op \in {"search", "vocab"} /\ ~enable_caching[ret[t].self]
            => ret[t].net # <<>>

\* the strings the statements of a landing page assign
Assigned(html) == {html[i].val : i \in DOMAIN html} \ {<<>>}

\* C18: however _initialize_session calls on one client interleave, a call
\* requests the landing page only when it starts while the flag is not set;
\* every call that has ended leaves the flag set; the token is None or a
\* string that a landing page assigned, and a call stores only a string of
\* the page it fetched itself; a call whose request failed or whose page
\* assigns no token leaves the token as it is.
C18_ConcurrentInitialization ==
    /\ [](\A t \in Tasks : ret[t].op = "init" => session_initialized[ret[t].self])
    /\ [](\A c \in Clients :
              nck_token[c] = None \/ \E st \in Stmts : st.val # <<>> /\ st.val = nck_token[c])
    /\ [][\A t \in Tasks :
            /\ pc[t] = "idle" /\ pc'[t] = "landing" =>
                   /\ ~session_initialized[frame'[t].self]
                   /\ landing_gets'[frame'[t].self] = landing_gets[frame'[t].self] + 1
            /\ Resumable(t, "landing") /\ Moves(t) =>
                   LET c == frame[t].self
                       response == frame[t].response
                       found == IF response.status = "ok" THEN Assigned(response.body) ELSE {}
                   IN  /\ session_initialized'[c]
                       /\ nck_token'[c] \in {nck_token[c]} \cup found
                       /\ found = {} => nck_token'[c] = nck_token[c]
                       /\ found # {} => nck_token'[c] \in found
                       /\ \A d \in Clients \ {c} : nck_token'[d] = nck_token[d]]_vars

\* two calls that both fetched the landing page, one of them in vain, and the
\* token of the other one is stored
C18_Witness ==
    \E t \in Tasks, u \in Tasks :
        /\ ret[t].op = "init" /\ ret[u].op = "init"
        /\ ret[t].self = ret[u].self
        /\ ret[t].net = <<GetLanding>> /\ ret[u].net = <<GetLanding>>
        /\ ret[t].swallowed = "" /\ ret[u].swallowed = "ConnectError"
        /\ init_overlap[ret[t].self]
        /\ landing_gets[ret[t].self] = 2
        /\ nck_token[ret[t].self] = TokB
        /\ pc[t] = "idle" /\ pc[u] = "idle"

\* how often request e occurs among the requests n
Times(n, e) == Cardinality({i \in DOMAIN n : n[i] = e})

AtMostOnce(n) ==
    /\ Times(n, GetSearchPage) <= 1
    /\ Times(n, PostSearch) <= 1
    /\ \A k \in Kinds : Times(n, GetDropdown(k)) <= 1

\* C19: a search requests the search page for its token at most once, the
\* dropdown of each filter at most once and the POST at most once; and the
\* step in which it is resumed with a failed request ends it with that
\* failure, without another request.
C19_NoRetry ==
    /\ [](\A t \in Tasks :
              /\ frame[t].op = "search" => AtMostOnce(net[t])
              /\ ret[t].op = "search" => AtMostOnce(ret[t].net))
    /\ [][\A t \in Tasks :
            (/\ frame[t].op = "search"
             /\ frame[t].response # NoResponse
             /\ frame[t].response.status # "ok"
             /\ Moves(t))
                => /\ pc'[t] = "idle"
                   /\ ret'[t].id = frame[t].id
                   /\ ret'[t].status = "raised"
                   /\ ret'[t].error[Len(ret'[t].error)] = frame[t].response.status
                   /\ ret'[t].net = net[t]
                   /\ net'[t] = <<>>]_vars

\* a search that fetched two dropdowns and ended when the third request failed
C19_Witness ==
    \E t \in Tasks :
        /\ ret[t].op = "search"
        /\ ret[t].status = "raised"
        /\ ret[t].error = <<SearchFailed, FetchFailed("part_type"), "ConnectError">>
        /\ ret[t].net = <<GetSearchPage, NckExtracted, GetDropdown("part_group"),
                          GetDropdown("part_type")>>

\* a vocabulary that holds every option of select that has a text, with its
\* count, stamped with the time time
Complete(v, select, time) ==
    /\ v.options = SelectSeq([i \in DOMAIN select |->
                                 Opt(select[i].value, Strip(select[i].text))],
                             LAMBDA o : o.text # <<>>)
    /\ v.count = Len(v.options)
    /\ v.last_updated = time

\* C20: a search that ends while the request it is suspended on is still in
\* flight (it was cancelled) raises, returns no result and changes neither a
\* dropdown cache nor index.html; a search returns a result only in the step
\* resumed with a successful POST response; and whenever a dropdown cache
\* changes, it changes in one step to the complete vocabulary of the page a
\* get_* call of that kind on that client was resumed with.
C20_CancelledSearchLeavesNoPartialState ==
    [][/\ \A t \in Tasks :
            /\ (frame[t].op = "search" /\ frame[t].response = NoResponse /\ Moves(t))
                   => /\ pc'[t] = "idle"
                      /\ ret'[t].id = frame[t].id
                      /\ ret'[t].status = "raised"
                      /\ ret'[t].result = NoResult
                      /\ dropdown_cache' = dropdown_cache
                      /\ index_html' = index_html
            /\ (frame[t].op = "search" /\ ret'[t].id = frame[t].id /\ ret'[t].status = "ok")
                   => Resumable(t, "post") /\ frame[t].response.status = "ok"
       /\ \A c \in Clients, k \in Kinds :
            dropdown_cache'[c][k] # dropdown_cache[c][k] =>
                \E t \in Tasks :
                    /\ Resumable(t, "dropdown")
                    /\ frame[t].self = c
                    /\ frame[t].kind = k
                    /\ frame[t].response.status = "ok"
                    /\ frame'[t] # frame[t]
                    /\ Complete(dropdown_cache'[c][k], frame[t].response.body, now)]_vars

\* a search cancelled at its POST, after it had fetched and stored a vocabulary
C20_Witness ==
    \E t \in Tasks :
        /\ ret[t].op = "search"
        /\ ret[t].status = "raised"
        /\ ret[t].error = <<Cancelled>>
        /\ ret[t].result = NoResult
        /\ ret[t].net[Len(ret[t].net)] = PostSearch
        /\ GetDropdown("manufacturer") \in {ret[t].net[i] : i \in DOMAIN ret[t].net}
        /\ dropdown_cache[ret[t].self]["manufacturer"].count > 0

\* the records the search of task t, which runs for a caller that builds
\* offers, has extracted: those of the page the POST was answered with, or
\* those the loop has converted and has still to convert
Extracted(t) ==
    IF pc[t] = "convert" THEN Len(frame[t].data) + Len(frame[t].parts)
    ELSE Len(ParsePartsSearchResults(frame[t].response.body))

\* C21: once the search of a request for offers has extracted its records
\* (the POST was answered and index.html written), the request ends returning
\* one item per extracted record, whatever becomes of the conversion of a
\* price: it never ends raising.
C21_ConversionFailureNonFatal ==
    [][\A t \in Tasks :
          ( /\ \/ pc[t] = "convert"
               \/ pc[t] = "post" /\ frame[t].caller # "none" /\ frame[t].response.status = "ok"
            /\ ret'[t].id = frame[t].id
            /\ ret'[t].error # <<SearchFailed, "OSError">> )
              => /\ ret'[t].status = "ok"
                 /\ Len(ret'[t].data) = Extracted(t)]_vars

\* the step is one of the call task t runs, or starts, on client c
ActsOn(t, c) ==
    /\ frame'[t] # frame[t]
    /\ c \in {frame[t].self, frame'[t].self}

\* a search on a client other than c has returned: it wrote index.html
WrittenByOther(c) ==
    \E u \in Tasks : ret[u].op = "search" /\ ret[u].status = "ok" /\ ret[u].self # c

\* C22: a step of a call on one client instance changes no field of another
\* instance (token, initialized flag, vocabulary caches, result cache), and
\* changes nothing that a call on another instance has written: the file
\* index.html, once a search on another instance wrote it, is left alone.
C22_InstancesIndependent ==
    [][\A t \in Tasks, c \in Clients :
          ActsOn(t, c) =>
              /\ \A d \in Clients \ {c} :
                     /\ session_initialized'[d] = session_initialized[d]
                     /\ nck_token'[d] = nck_token[d]
                     /\ dropdown_cache'[d] = dropdown_cache[d]
                     /\ part_cache'[d] = part_cache[d]
              /\ WrittenByOther(c) => index_html' = index_html]_vars

\* C23: a catalog call posts only on a client whose session is initialized: it
\* starts with the landing GET when the session is not, and goes on to its
\* POST however that GET ends.  The form it posts holds the field _jnck
\* exactly when the client holds a token at that moment, and then the field
\* is the percent-escaped token without the parameter prefix.  The call
\* returns the decoded response; a failed POST and an undecodable response
\* both raise the catalog-call failure, wrapping its cause.
C23_CatalogCallPostsWithToken ==
    [][\A t \in Tasks :
          /\ (frame'[t].op = "catalog" /\ pc[t] = "idle")
                 => IF session_initialized[frame'[t].self] THEN pc'[t] = "catalog"
                    ELSE pc'[t] = "landing" /\ net'[t] = <<GetLanding>>
          /\ (frame[t].op = "catalog" /\ Resumable(t, "landing") /\ frame'[t] # frame[t])
                 => pc'[t] = "catalog"
          /\ (frame'[t].op = "catalog" /\ pc'[t] = "catalog" /\ pc[t] # "catalog")
                 => LET c == frame'[t].self
                        tok == nck_token'[c]
                        jnck == frame'[t].api_data.jnck
                    IN  /\ session_initialized'[c]
                        /\ net'[t][Len(net'[t])] = PostCatalog
                        /\ Times(net'[t], PostCatalog) = 1
                        /\ frame'[t].api_data.func = frame'[t].function
                        /\ (jnck # None) <=> Truthy(tok)
                        /\ jnck # None =>
                               /\ \A i \in DOMAIN jnck : jnck[i] \notin Reserved
                               /\ Unquote(jnck) = tok
          /\ (Resumable(t, "catalog") /\ frame'[t] # frame[t])
                 => /\ ret'[t].id = frame[t].id
                    /\ ret'[t].api_data = frame[t].api_data
                    /\ IF frame[t].response = Ok(CatalogJson)
                       THEN ret'[t].status = "ok" /\ ret'[t].json = CatalogJson
                       ELSE /\ ret'[t].status = "raised"
                            /\ Len(ret'[t].error) = 2
                            /\ ret'[t].error[1] = CatalogFailed
                            /\ ret'[t].error[2] \in RequestErrors \cup {"JSONDecodeError"}]_vars

\* two catalog calls on one client that both fetched the landing page: the
\* one whose fetch failed posted without the field and returned, the other
\* posted the escaped token and its POST failed
C23_Witness ==
    \E t, u \in Tasks :
        /\ ret[t].op = "catalog" /\ ret[u].op = "catalog"
        /\ ret[t].self = ret[u].self
        /\ ret[t].net = <<GetLanding, PostCatalog>>
        /\ ret[t].api_data.jnck = None
        /\ ret[t].status = "ok"
        /\ ret[u].net = <<GetLanding, PostCatalog>>
        /\ ret[u].api_data.jnck = <<"a", "%", "2", "F", "b">>
        /\ ret[u].status = "raised"
        /\ ret[u].error = <<CatalogFailed, "HTTPStatusError">>

\* the search of task t is submitted for the query parameters q: the part
\* number is text + oem, the manufacturer filter is make_name and its form
\* value is the one the manufacturer vocabulary gives for make_name
SubmittedFor(t, q) ==
    /\ frame[t].form_data.partnum = q.text \o q.oem
    /\ frame[t].labels["manufacturer"] = q.make_name
    /\ frame[t].form_data.values["manufacturer"] =
           IF NeedsVocabulary(q.make_name)
           THEN FormValue(dropdown_cache[frame[t].self]["manufacturer"], q.make_name)
           ELSE <<>>

\* C24: the search POST of a request to GET get_offers_by_oem_and_make_name
\* is submitted for the request's own oem, make_name and text.
C24_OffersFollowMakeNameAndText ==
    \A t \in Tasks :
        (frame[t].caller = "route" /\ pc[t] = "post") => SubmittedFor(t, frame[t].request)

\* the step resumes the search of task t with a successful POST response
ResumedWithPage(t) ==
    /\ frame[t].op = "search"
    /\ Resumable(t, "post")
    /\ frame[t].response.status = "ok"
    /\ frame'[t] # frame[t]

\* C25: the step that resumes a search with a successful POST response ends
\* the search.  Either it returns the result parsed from the page, and then
\* index.html holds that page; or the write of index.html failed, and then
\* the search raises the search failure and the file is as it was or was
\* truncated.  No other step changes index.html, so the file holds the page
\* of the search that wrote last, whichever client ran it.
C25_ResultOnlyAfterPageWritten ==
    [][/\ \A t \in Tasks :
            ResumedWithPage(t) =>
                LET original_html == frame[t].response.body
                IN  /\ ret'[t].id = frame[t].id
                    /\ \/ /\ ret'[t].status = "ok"
                          /\ ret'[t].result.parts = ParsePartsSearchResults(original_html)
                          /\ index_html' = [exists |-> TRUE, text |-> original_html]
                       \/ /\ ret'[t].status = "raised"
                          /\ ret'[t].error = <<SearchFailed, "OSError">>
                          /\ ret'[t].result = NoResult
                          /\ index_html' \in {index_html, [exists |-> TRUE, text |-> <<>>]}
       /\ index_html' # index_html => \E t \in Tasks : ResumedWithPage(t)]_vars

\* searches on two clients have returned, the first an empty result and the
\* second the two parts of a page of three listings, which index.html holds
C25_Witness ==
    \E t, u \in Tasks :
        /\ ret[t].op = "search" /\ ret[u].op = "search"
        /\ ret[t].self # ret[u].self
        /\ ret[t].status = "ok" /\ ret[u].status = "ok"
        /\ ret[t].id < ret[u].id
        /\ ret[t].result.count = 0
        /\ ret[u].result.count = 2
        /\ index_html = [exists |-> TRUE, text |-> <<RowBadImg, RowFull, RowNoPrice>>]

=============================================================================
